---- MODULE Spec2Model ----
(***************************************************************************)
(* Model of the Quill release scripts:                                     *)
(*   Scripts/configure-sparkle.py  (object-graph patch of project.pbxproj) *)
(*   Scripts/update-appcast.py     (feed patch of appcast.xml)             *)
(*                                                                         *)
(* Documents are sequences of tokens.  A token is a string that names a    *)
(* piece of text, "kind" or "kind:id" when the text holds an identifier (a *)
(* version, a note ...).  The regular expressions of the scripts are       *)
(* operators                                                               *)
(* over token sequences.  Tokenisation convention of the project document: *)
(* an attribute token holds its own leading line break and indentation and *)
(* its terminating ';', so that `[^}]+` between two attribute tokens always*)
(* has a character to consume and stands for "zero or more whole tokens    *)
(* holding no '}'"; the white space the patterns match with `\s*` and the  *)
(* list brackets are tokens of their own.                                  *)
(***************************************************************************)
EXTENDS Integers, Sequences, FiniteSets, TLC

VARIABLES
    projExists,     \* Quill/Quill.xcodeproj/project.pbxproj is on disk
    projContent,    \* its text
    backupContent,  \* text of project.pbxproj.backup (<<>> when none was taken)
    plistExists,    \* Quill/Quill/Info.plist is on disk
    prev,           \* the call before the last one (history)
    last,           \* the last call of the project script's functions (history)
    feedExists,     \* appcast.xml is on disk
    feedContent,    \* its text
    feed0,          \* the text appcast.xml started with (history)
    okCalls,        \* the arguments of the update_appcast calls that returned True (history)
    lastFeed,       \* the last run of the feed script (history)
    clock,          \* the number of runs of the feed script so far: what utcnow() reads
    notesFile,      \* the release-notes file handed to parse_release_notes
    parsed          \* the last result of parse_release_notes with the entry built from it

vars == <<projExists, projContent, backupContent, plistExists, prev, last,
          feedExists, feedContent, feed0, okCalls, lastFeed, clock, notesFile, parsed>>

projVars == <<projExists, projContent, backupContent, plistExists, prev, last>>
feedVars == <<feedExists, feedContent, feed0, okCalls, lastFeed, clock>>
notesVars == <<notesFile, parsed>>

(***************************************************************************)
(* Tokens                                                                  *)
(***************************************************************************)
T(kind) == kind
TI(kind, ident) == kind \o ":" \o ident

\* 8444F69F2DEB50FA002F0BEA, the literal of the step-4 pattern.
TargetId == "8444F69F2DEB50FA002F0BEA"
\* another well-formed 24-digit identifier
OtherId == "AAAAF69F2DEB50FA002F0BEA"
\* the build-configuration identifiers of update_project_for_info_plist's pattern
QuillDebugId == "8444F6C42DEB50FD002F0BEA"
QuillReleaseId == "8444F6C52DEB50FD002F0BEA"
OtherConfigId == "8444F6C12DEB50FD002F0BEA"

\* secrets.token_hex(12).upper(): the values generate_uuid can return (fresh ones)
UUIDs == {"U1", "U2"}

\* tokens whose text holds a '}'
HasRBrace(t) == t \in {"closeBrace", "closeBraceInner"}
\* tokens whose text holds a ')'
HasRParen(t) == t \in {"listClose"}
\* tokens that are white space only (what \s matches)
IsSpace(t) == t \in {"wsSP", "wsNL", "wsNL3"}

Min(S) == CHOOSE x \in S : \A y \in S : x <= y
Max(S) == CHOOSE x \in S : \A y \in S : x >= y

\* s[i..j] = pat
OccursAt(s, pat, i) ==
    /\ i + Len(pat) - 1 <= Len(s)
    /\ \A k \in 1..Len(pat) : s[i + k - 1] = pat[k]

\* str.replace(pat, rep) on s[from..]: every non-overlapping occurrence, left to right
RECURSIVE ReplaceFrom(_, _, _, _)
ReplaceFrom(s, pat, rep, from) ==
    LET occ == {i \in from..Len(s) : OccursAt(s, pat, i)}
    IN IF occ = {} \/ pat = <<>> THEN SubSeq(s, from, Len(s))
       ELSE SubSeq(s, from, Min(occ) - 1) \o rep
                \o ReplaceFrom(s, pat, rep, Min(occ) + Len(pat))

ReplaceAll(s, pat, rep) == ReplaceFrom(s, pat, rep, 1)

(***************************************************************************)
(* configure-sparkle.py: add_sparkle_to_project                            *)
(***************************************************************************)
\* content.lower(): of the tokens of the model only the mixed-case marker
\* changes into a text that holds 'sparkle-project'
Lower(t) == IF t = "markerMixed" THEN "markerLower" ELSE t

\* tokens whose text holds the substring 'sparkle-project'
HoldsMarker(t) == t \in {"markerLower", "repositoryURL"}

\* a gate that looks for 'sparkle-project' in the two new sections' comments only,
\* where the text the patch writes does not hold it
MarkerInSectionComments(content) ==
    \E i \in 1..Len(content) :
        content[i] \in {"beginRefSection", "beginDepSection"} /\ HoldsMarker(content[i])

\* 'sparkle-project' in content.lower()
AlreadyConfigured(content) ==
    \E i \in 1..Len(content) : HoldsMarker(Lower(content[i]))

\* re.search(r'(/\* Quill \*/ = \{[^}]+isa = PBXNativeTarget[^}]+)productReference = ([A-F0-9]+)')
TargetMatch(content) ==
    \E i \in 1..Len(content) :
        /\ content[i] = "quillOpen"
        /\ \E j \in (i + 1)..Len(content) :
            /\ content[j] = "isaNativeTarget"
            /\ \E k \in (j + 1)..Len(content) :
                /\ content[k] = "productReference"
                /\ \A m \in (i + 1)..(k - 1) : ~HasRBrace(content[m])

\* re.search(r'(/\* Project object \*/);\s*objects = \{')
ProjectMatch(content) ==
    \E i \in 1..Len(content) :
        /\ content[i] = "projObjRef"
        /\ \E j \in (i + 1)..Len(content) :
            /\ content[j] = "objectsOpen"
            /\ \A m \in (i + 1)..(j - 1) : IsSpace(content[m])

\* package_ref_section
PackageRefSection(refUuid) ==
    << T("wsNL"), T("beginRefSection"),
       TI("id", refUuid), T("pkgRefOpen"),
       T("isaRemoteRef"), T("repositoryURL"), T("requirementOpen"),
       T("closeBraceInner"), T("closeBrace"),
       T("endRefSection"), T("wsNL") >>

\* product_dep_section
ProductDepSection(refUuid, productUuid) ==
    << T("wsNL"), T("beginDepSection"),
       TI("id", productUuid), T("sparkleOpen"),
       T("isaProductDep"), TI("packageAttr", refUuid), T("productName"),
       T("closeBrace"),
       T("endDepSection"), T("wsNL") >>

\* content.find('/* Begin PBXProject section */') as a 1-based index; 0 stands for -1
PbxProjectPos(content) ==
    IF \E i \in 1..Len(content) : content[i] = "pbxBegin"
    THEN Min({i \in 1..Len(content) : content[i] = "pbxBegin"})
    ELSE 0

\* where r'projectDirPath = "";[^}]+projectRoot = "";[^}]+targets = \([^)]+\);' can
\* end when it starts at s
ProjectSectionEnds(content, s) ==
    IF content[s] # "projectDirPath" THEN {}
    ELSE {e \in (s + 1)..Len(content) :
            /\ content[e] = "listClose"
            /\ \E t \in (s + 2)..(e - 2) :
                /\ content[t] = "targetsOpen"
                /\ \E r \in (s + 1)..(t - 1) : content[r] = "projectRoot"
                /\ \A m \in (s + 1)..(t - 1) : ~HasRBrace(content[m])
                /\ \A m \in (t + 1)..(e - 1) : ~HasRParen(content[m])}

\* project_section.group(1), <<>> when re.search returns None: the leftmost start and,
\* both [^}]+ being greedy, the last list of targets of the run without '}'
ProjectSection(content) ==
    LET starts == {s \in 1..Len(content) : ProjectSectionEnds(content, s) # {}}
    IN IF starts = {} THEN <<>>
       ELSE LET s == Min(starts)
            IN SubSeq(content, s, Max(ProjectSectionEnds(content, s)))

\* the new list attribute appended to project_section.group(1)
PackageReferencesAttr(refUuid) ==
    << T("packageReferencesOpen"), TI("packageRefItem", refUuid),
       T("wsNL3"), T("listClose") >>

\* the index of the ');' that closes the list opened at p with only white space
\* inside, 0 when there is none: \(\s*(\);)
EmptyListClose(content, p) ==
    LET es == {e \in (p + 1)..Len(content) :
                  /\ content[e] = "listClose"
                  /\ \A m \in (p + 1)..(e - 1) : IsSpace(content[m])}
    IN IF es = {} THEN 0 ELSE Min(es)

\* where 'packageProductDependencies = (' of the step-4 pattern can be when the
\* pattern starts at s
TargetSectionOpens(content, s) ==
    IF content[s] # TI("id", TargetId) \/ s + 1 > Len(content) THEN {}
    ELSE IF content[s + 1] # "quillOpen" THEN {}
    ELSE {p \in (s + 2)..Len(content) :
            /\ content[p] = "ppdOpen"
            /\ \A m \in (s + 2)..(p - 1) : ~HasRBrace(content[m])
            /\ EmptyListClose(content, p) # 0}

\* re.search(r'(8444F69F2DEB50FA002F0BEA /\* Quill \*/ = \{[^}]+packageProductDependencies = \()\s*(\);)')
\* as [found, g0, g1, g2]
TargetSection(content) ==
    LET starts == {s \in 1..Len(content) : TargetSectionOpens(content, s) # {}}
    IN IF starts = {}
       THEN [found |-> FALSE, g0 |-> <<>>, g1 |-> <<>>, g2 |-> <<>>]
       ELSE LET s == Min(starts)
                p == Max(TargetSectionOpens(content, s))
                e == EmptyListClose(content, p)
            IN [found |-> TRUE,
                g0 |-> SubSeq(content, s, e),
                g1 |-> SubSeq(content, s, p),
                g2 |-> SubSeq(content, e, e)]

\* f'\n\t\t\t\t{package_product_uuid} /* Sparkle */,\n\t\t\t'
ProductDependencyItem(productUuid) ==
    << TI("productDepItem", productUuid), T("wsNL3") >>

\* step 3: content.replace(project_section.group(1), new_project_content)
AddPackageReference(content, refUuid) ==
    LET g1 == ProjectSection(content)
    IN IF g1 # <<>>
       THEN ReplaceAll(content, g1, g1 \o PackageReferencesAttr(refUuid))
       ELSE content

\* step 4: content.replace(target_section.group(0), new_target_content)
AddProductDependency(content, productUuid) ==
    LET m == TargetSection(content)
    IN IF m.found
       THEN ReplaceAll(content, m.g0,
                       m.g1 \o ProductDependencyItem(productUuid) \o m.g2)
       ELSE content

\* the two sections spliced in before the PBXProject section
InsertSections(content, pos, refUuid, productUuid) ==
    SubSeq(content, 1, pos - 1)
        \o PackageRefSection(refUuid) \o <<T("wsNL")>>
        \o ProductDepSection(refUuid, productUuid) \o <<T("wsNL")>>
        \o SubSeq(content, pos, Len(content))

UuidLines(refUuid, productUuid) ==
    << T("Package Reference UUID"), T("Package Product UUID") >>

\* add_sparkle_to_project on a file holding `content`, generate_uuid returning
\* refUuid, then productUuid: the value returned, the text the file holds
\* afterwards, whether the file was written, the lines printed, and the optional
\* anchors that were searched and not found
AddSparkleToProject(content, refUuid, productUuid) ==
    LET quiet(msg) == [ret |-> FALSE, content |-> content, wrote |-> FALSE,
                       out |-> UuidLines(refUuid, productUuid) \o <<T(msg)>>,
                       skipped |-> {}]
    IN IF AlreadyConfigured(content)
         THEN quiet("Sparkle already configured in project")
       ELSE IF ~TargetMatch(content)
         THEN quiet("ERROR: Could not find Quill target")
       ELSE IF ~ProjectMatch(content)
         THEN quiet("ERROR: Could not find project object")
       ELSE IF PbxProjectPos(content) = 0
         THEN quiet("ERROR: Could not find PBXProject section")
       ELSE
         LET c2 == InsertSections(content, PbxProjectPos(content), refUuid, productUuid)
             c3 == AddPackageReference(c2, refUuid)
             c4 == AddProductDependency(c3, productUuid)
         IN [ret |-> TRUE, content |-> c4, wrote |-> TRUE,
             out |-> UuidLines(refUuid, productUuid)
                        \o <<T("Added Sparkle package to project")>>,
             skipped |-> (IF ProjectSection(c2) = <<>> THEN {"project_section"} ELSE {})
                         \cup (IF ~TargetSection(c3).found THEN {"target_section"} ELSE {})]

(***************************************************************************)
(* configure-sparkle.py: create_info_plist, update_project_for_info_plist  *)
(***************************************************************************)
\* create_info_plist: [ret, exists'] from whether Info.plist exists
CreateInfoPlist(exists) ==
    IF exists THEN [ret |-> FALSE, exists |-> TRUE]
    ELSE [ret |-> TRUE, exists |-> TRUE]

\* the first alternative of both patterns, r'8444F6C[45]2DEB50FD002F0BEA /\* Debug',
\* at i: the index of its last token, 0 when it does not match
DebugAlternativeEnd(content, i) ==
    IF /\ i + 1 <= Len(content)
       /\ content[i] \in {TI("id", QuillDebugId), TI("id", QuillReleaseId)}
       /\ content[i + 1] = "cDebug"
    THEN i + 1 ELSE 0

\* the second alternative of both patterns,
\* r'Release \*/ = \{[^}]+GENERATE_INFOPLIST_FILE = ', followed by `value`, at i:
\* the index of the value token, 0 when it does not match ([^}]+ is greedy)
ReleaseAlternativeEnd(content, i, value) ==
    IF content[i] # "cRelease" \/ i + 1 > Len(content) THEN 0
    ELSE IF content[i + 1] # "recOpen" THEN 0
    ELSE LET gs == {g \in (i + 2)..(Len(content) - 1) :
                      /\ content[g] = "genInfoplist"
                      /\ content[g + 1] = value
                      /\ \A m \in (i + 2)..(g - 1) : ~HasRBrace(content[m])}
         IN IF gs = {} THEN 0 ELSE Max(gs) + 1

\* the first re.sub, from token i on: the leftmost match, then on from its end
\* r'(8444F6C[45]2DEB50FD002F0BEA /\* Debug|Release \*/ = \{[^}]+GENERATE_INFOPLIST_FILE = )YES;' -> r'\1NO;'
YesMatchEnd(content, j) ==
    LET a == DebugAlternativeEnd(content, j)
    IN IF a # 0 /\ a + 1 <= Len(content) /\ content[a + 1] = "yes" THEN a + 1
       ELSE ReleaseAlternativeEnd(content, j, "yes")

RECURSIVE SetGenerateNo(_, _)
SetGenerateNo(content, i) ==
    LET ms == {j \in i..Len(content) : YesMatchEnd(content, j) # 0}
    IN IF ms = {} THEN SubSeq(content, i, Len(content))
       ELSE LET e == YesMatchEnd(content, Min(ms))
            IN SubSeq(content, i, e - 1) \o <<T("no")>> \o SetGenerateNo(content, e + 1)

\* the second re.sub, from token i on:
\* r'(8444F6C[45]2DEB50FD002F0BEA /\* Debug|Release \*/ = \{[^}]+GENERATE_INFOPLIST_FILE = NO;)'
\*   -> r'\1\n\t\t\t\tINFOPLIST_FILE = Quill/Info.plist;'
NoMatchEnd(content, j) ==
    LET a == DebugAlternativeEnd(content, j)
    IN IF a # 0 THEN a ELSE ReleaseAlternativeEnd(content, j, "no")

RECURSIVE AddInfoPlistFile(_, _)
AddInfoPlistFile(content, i) ==
    LET ms == {j \in i..Len(content) : NoMatchEnd(content, j) # 0}
    IN IF ms = {} THEN SubSeq(content, i, Len(content))
       ELSE LET e == NoMatchEnd(content, Min(ms))
            IN SubSeq(content, i, e) \o <<T("infoplistFile")>> \o AddInfoPlistFile(content, e + 1)

\* update_project_for_info_plist: the text written back
UpdateProjectForInfoPlist(content) ==
    AddInfoPlistFile(SetGenerateNo(content, 1), 1)

(***************************************************************************)
(* configure-sparkle.py: main                                              *)
(***************************************************************************)
NoCall == [fn |-> "none"]

\* main() with the project file on disk: its calls in order and the exit status
MainRun(content, plist, refUuid, productUuid) ==
    LET add == AddSparkleToProject(content, refUuid, productUuid)
        cip == CreateInfoPlist(plist)
        final == IF cip.ret THEN UpdateProjectForInfoPlist(add.content) ELSE add.content
    IN [fn |-> "main", before |-> content, backup |-> content, add |-> add,
        plistBefore |-> plist, plistCreated |-> cip.ret, updated |-> cip.ret,
        afterAdd |-> add.content, after |-> final, exit |-> 0]

(***************************************************************************)
(* The project documents the script is run on                              *)
(***************************************************************************)
MarkerVariants == {<<>>, <<T("markerMixed")>>}

\* the list attribute of the target record
DependencyList(v) ==
    CASE v = "none" -> <<>>
      [] v = "empty" -> <<T("ppdOpen"), T("listClose")>>
      [] v = "emptySP" -> <<T("ppdOpen"), T("wsSP"), T("listClose")>>
      [] v = "emptyNL3" -> <<T("ppdOpen"), T("wsNL3"), T("listClose")>>
      [] v = "full" -> <<T("ppdOpen"), T("item"), T("wsNL3"), T("listClose")>>

DependencyListVariants == {"none", "empty", "emptySP", "emptyNL3", "full"}

TargetRecord(ident, deps, productRef) ==
    <<TI("id", ident), T("quillOpen"), T("isaNativeTarget")>>
        \o DependencyList(deps)
        \o (IF productRef THEN <<T("productReference")>> ELSE <<>>)
        \o <<T("closeBrace")>>

TargetVariants ==
    {<<>>}
    \cup {TargetRecord(i, d, r) : i \in {TargetId, OtherId},
                                  d \in DependencyListVariants, r \in BOOLEAN}
    \cup {TargetRecord(TargetId, "emptySP", TRUE) \o TargetRecord(TargetId, "emptySP", TRUE)}

SectionVariants == {<<>>, <<T("wsNL"), T("pbxBegin")>>}

RootRecord(v) ==
    CASE v = "none" -> <<>>
      [] v = "full" -> <<TI("id", "RootId"), T("projObjOpen"), T("projectDirPath"),
                         T("projectRoot"), T("targetsOpen"), T("item"), T("wsNL3"),
                         T("listClose"), T("closeBrace")>>
      [] v = "noProjectRoot" -> <<TI("id", "RootId"), T("projObjOpen"), T("projectDirPath"),
                         T("targetsOpen"), T("item"), T("wsNL3"),
                         T("listClose"), T("closeBrace")>>
      [] v = "noTargets" -> <<TI("id", "RootId"), T("projObjOpen"), T("projectDirPath"),
                         T("projectRoot"), T("targetsOpen"),
                         T("listClose"), T("closeBrace")>>

      [] v = "twoLists" -> <<TI("id", "RootId"), T("projObjOpen"), T("projectDirPath"),
                         T("projectRoot"), T("targetsOpen"), T("item"), T("listClose"),
                         T("projectRoot"), T("targetsOpen"), T("item"), T("wsNL3"),
                         T("listClose"), T("closeBrace")>>

RootVariants == {"none", "full", "noProjectRoot", "noTargets", "twoLists"}

\* a build-configuration record
ConfigRecord(ident, name, value) ==
    <<TI("id", ident), T(name), T("recOpen"), T("isaBuildCfg"), T("otherSetting"),
      T("genInfoplist"), T(value), T("closeBraceInner"), T("nameAttr"), T("closeBrace")>>

\* a reference to a build configuration in a configuration list
ConfigRef(ident, name) == <<TI("id", ident), T(name), T("refEnd")>>

ConfigPart(debug, release, other, refs) ==
    (IF debug = "none" THEN <<>> ELSE ConfigRecord(QuillDebugId, "cDebug", debug))
    \o (IF release = "none" THEN <<>> ELSE ConfigRecord(QuillReleaseId, "cRelease", release))
    \o (IF other = "none" THEN <<>> ELSE ConfigRecord(OtherConfigId, "cRelease", other))
    \o (IF refs THEN ConfigRef(QuillDebugId, "cDebug") \o ConfigRef(QuillReleaseId, "cRelease")
        ELSE <<>>)

ConfigVariants ==
    {ConfigPart(d, r, o, b) : d \in {"none", "yes", "no"}, r \in {"none", "yes", "no"},
                              o \in {"none", "yes"}, b \in BOOLEAN}

\* a document: `anchored` puts '/* Project object */;' right before 'objects = {',
\* otherwise it stands where Xcode writes it, at the end of the file
ProjectDoc(marker, anchored, target, section, root, config) ==
    (IF anchored THEN <<T("projObjRef"), T("wsNL"), T("objectsOpen")>>
     ELSE <<T("objectsOpen")>>)
    \o marker \o target \o section \o RootRecord(root) \o config
    \o <<T("closeBrace")>>
    \o (IF anchored THEN <<>> ELSE <<T("projObjRef")>>)

ProjectDocs ==
    {ProjectDoc(m, a, t, s, r, ConfigPart("yes", "yes", "none", TRUE)) :
        m \in MarkerVariants, a \in BOOLEAN, t \in TargetVariants,
        s \in SectionVariants, r \in RootVariants}
    \cup
    {ProjectDoc(<<>>, TRUE, TargetRecord(TargetId, "emptyNL3", TRUE),
                <<T("wsNL"), T("pbxBegin")>>, "full", c) : c \in ConfigVariants}

(***************************************************************************)
(* update-appcast.py: parse_release_notes                                  *)
(* A line of the release notes is a sequence of pieces of text: "-", " ",  *)
(* "\t", "## ", "#", a heading title, a word, "(abc1234)" (seven lowercase *)
(* hexadecimal digits in parentheses), "(ABC1234)".                        *)
(***************************************************************************)
NoNotesFile == [exists |-> FALSE, lines |-> <<>>]

DefaultNotes == << <<"See the full release notes for details.">> >>

\* "## What's Changed" in line or "## What's New" in line
ContainsHeading(line) ==
    \E i \in 1..(Len(line) - 1) :
        line[i] = "## " /\ line[i + 1] \in {"What's Changed", "What's New"}

\* line.startswith('## ')
StartsWithH2(line) == line # <<>> /\ line[1] = "## "

\* str.strip(chars): the pieces in `chars` taken off both ends
RECURSIVE LStrip(_, _)
LStrip(line, chars) ==
    IF line # <<>> /\ Head(line) \in chars THEN LStrip(Tail(line), chars) ELSE line

RECURSIVE RStrip(_, _)
RStrip(line, chars) ==
    IF line # <<>> /\ line[Len(line)] \in chars
    THEN RStrip(SubSeq(line, 1, Len(line) - 1), chars) ELSE line

Strip(line, chars) == RStrip(LStrip(line, chars), chars)

WhiteSpace == {" ", "\t"}

\* line.strip().startswith('- ')
IsBulletLine(line) ==
    LET l == Strip(line, WhiteSpace)
    IN Len(l) >= 2 /\ l[1] = "-" /\ l[2] = " "

\* re.sub(r'\s*\([a-f0-9]{7}\)\s*$', '', text)
RemoveCommitHash(text) ==
    LET t == RStrip(text, WhiteSpace)
    IN IF t # <<>> /\ t[Len(t)] = "(abc1234)"
       THEN RStrip(SubSeq(t, 1, Len(t) - 1), WhiteSpace)
       ELSE text

\* clean_line
CleanLine(line) == RemoveCommitHash(Strip(Strip(line, {"-", " "}), WhiteSpace))

\* the loop over content.split('\n')
RECURSIVE ParseLines(_, _, _)
ParseLines(lines, inSection, notes) ==
    IF lines = <<>> THEN notes
    ELSE LET line == Head(lines)
         IN IF ContainsHeading(line) THEN ParseLines(Tail(lines), TRUE, notes)
            ELSE IF StartsWithH2(line) /\ inSection THEN notes
            ELSE IF inSection /\ IsBulletLine(line)
              THEN ParseLines(Tail(lines), inSection,
                              IF CleanLine(line) # <<>> THEN Append(notes, CleanLine(line))
                              ELSE notes)
            ELSE ParseLines(Tail(lines), inSection, notes)

\* the cap of the return statement
MaxNotes == 5

\* parse_release_notes
ParseReleaseNotes(file) ==
    IF ~file.exists THEN DefaultNotes
    ELSE LET notes == ParseLines(file.lines, FALSE, <<>>)
         IN IF notes # <<>> THEN SubSeq(notes, 1, IF Len(notes) < MaxNotes THEN Len(notes) ELSE MaxNotes)
            ELSE DefaultNotes

(***************************************************************************)
(* update-appcast.py: create_item_element                                  *)
(***************************************************************************)
RECURSIVE Join(_)
Join(pieces) == IF pieces = <<>> THEN "" ELSE Head(pieces) \o Join(Tail(pieces))

\* the element built by create_item_element: its children in order; the text of
\* description as lines; the attributes of enclosure in the order they are set
CreateItemElement(version, dmgSize, releaseNotes, repo, now) ==
    [title |-> "Version " \o version,
     pubDate |-> now,
     version |-> version,
     shortVersionString |-> version,
     description |-> << <<>>, <<"<h2>What's New in ", version, "</h2>">>, <<"<ul>">> >>
                     \o [i \in 1..Len(releaseNotes) |-> <<"<li>", Join(releaseNotes[i]), "</li>">>]
                     \o << <<"</ul>">>, <<"<p>See the release notes of ", repo, " v", version, "</p>">>, <<>> >>,
     enclosure |-> << <<"url", repo \o "/v" \o version \o "/Quill-" \o version \o ".dmg">>,
                      <<"length", dmgSize>>,
                      <<"type", "application/octet-stream">> >>,
     minimumSystemVersion |-> "14.0"]

\* ET.tostring escapes the markup characters of a text: a piece that is a tag
\* becomes its escaped form
EscapeText(piece) ==
    CASE piece = "<li>" -> "&lt;li&gt;"
      [] piece = "</li>" -> "&lt;/li&gt;"
      [] piece = "<ul>" -> "&lt;ul&gt;"
      [] piece = "</ul>" -> "&lt;/ul&gt;"
      [] piece = "<h2>What's New in " -> "&lt;h2&gt;What's New in "
      [] piece = "</h2>" -> "&lt;/h2&gt;"
      [] piece = "<p>See the release notes of " -> "&lt;p&gt;See the release notes of "
      [] piece = "</p>" -> "&lt;/p&gt;"
      [] OTHER -> piece

RECURSIVE Attributes(_)
Attributes(attrs) ==
    IF attrs = <<>> THEN ""
    ELSE " " \o Head(attrs)[1] \o "=" \o Head(attrs)[2] \o Attributes(Tail(attrs))

\* the enclosure element as ET.tostring writes it
EnclosureXml(attrs) == "<enclosure" \o Attributes(attrs) \o " />"

\* ET.tostring(new_item).split('\n'): the children are written on one line, the
\* only line breaks are those of the description's text
ItemStrLines(item) ==
    LET d == item.description
        esc(line) == [i \in 1..Len(line) |-> EscapeText(line[i])]
    IN << <<"<item xmlns:ns0>", "<title>" \o item.title, "<pubDate>" \o item.pubDate,
            "<ns0:version>" \o item.version,
            "<ns0:shortVersionString>" \o item.shortVersionString,
            "<description>">> \o esc(d[1]) >>
       \o [i \in 1..(Len(d) - 2) |-> esc(d[i + 1])]
       \o << esc(d[Len(d)])
             \o <<"</description>", EnclosureXml(item.enclosure),
                  "<ns0:minimumSystemVersion>" \o item.minimumSystemVersion, "</item>">> >>

\* the loop that builds item_lines and '\n'.join(item_lines): a line is kept unless
\* it is empty, '<item>' or '</item>'
RECURSIVE IndentLines(_)
IndentLines(lines) ==
    IF lines = <<>> THEN <<>>
    ELSE LET line == Head(lines)
         IN (IF line # <<>> /\ line # <<"<item>">> /\ line # <<"</item>">>
             THEN <<"wsNL", "wsIndent12">> \o line ELSE <<>>)
            \o IndentLines(Tail(lines))

NewItemXml(item) ==
    <<"wsIndent8", "<item>">> \o IndentLines(ItemStrLines(item))
        \o <<"wsNL", "wsIndent8", "</item>">>

(***************************************************************************)
(* update-appcast.py: update_appcast, main                                 *)
(***************************************************************************)
IsFeedSpace(t) == t \in {"wsNL", "wsIndent8", "wsIndent12"}

\* the end of the white space that follows token i
RECURSIVE SpaceRunEnd(_, _)
SpaceRunEnd(content, i) ==
    IF i + 1 <= Len(content) /\ IsFeedSpace(content[i + 1])
    THEN SpaceRunEnd(content, i + 1) ELSE i

\* r'(-->\s*\n\s*\n)' at i: the index of its last token, 0 when it does not match
\* there. Both \s* are greedy: the match ends with the last line break of the white
\* space after '-->', which must hold two line breaks.
InsertionEnd(content, i) ==
    IF content[i] # "-->" THEN 0
    ELSE LET nls == {j \in (i + 1)..SpaceRunEnd(content, i) : content[j] = "wsNL"}
         IN IF Cardinality(nls) >= 2 THEN Max(nls) ELSE 0

\* where the pattern matches
InsertionStarts(content) == {i \in 1..Len(content) : InsertionEnd(content, i) # 0}

\* the rightmost match, where a search from the end would insert
LastInsertion(content) == Max(InsertionStarts(content))

\* the match re.sub(..., count=1) replaces: the leftmost one
FirstInsertion(content) == Min(InsertionStarts(content))

\* a backslash followed by a letter that is no escape of a replacement template
BadEscapes == {"C:\\dir"}

\* re.sub reads its replacement as a template
TemplateError(releaseNotes) ==
    \E i \in 1..Len(releaseNotes) : \E j \in 1..Len(releaseNotes[i]) :
        releaseNotes[i][j] \in BadEscapes

\* update_appcast: ret is "True", "False" or "re.error" (the exception re.sub raises,
\* which ends the script with a traceback and status 1)
UpdateAppcast(content, version, dmgSize, file, repo, now) ==
    LET releaseNotes == ParseReleaseNotes(file)
        item == CreateItemElement(version, dmgSize, releaseNotes, repo, now)
    IN IF InsertionStarts(content) # {}
       THEN IF TemplateError(releaseNotes)
            THEN [ret |-> "re.error", content |-> content, item |-> item,
                  notes |-> releaseNotes]
            ELSE LET e == InsertionEnd(content, FirstInsertion(content))
                 IN [ret |-> "True",
                     content |-> SubSeq(content, 1, e) \o NewItemXml(item)
                                     \o <<"wsNL", "wsNL">>
                                     \o SubSeq(content, e + 1, Len(content)),
                     item |-> item, notes |-> releaseNotes]
       ELSE [ret |-> "False", content |-> content, item |-> item, notes |-> releaseNotes]

\* os.environ.get('GITHUB_REPOSITORY', 'zmh/quill')
Repo == "zmh/quill"

Versions == {"1.0.0", "1.0.1", "1.0.2"}
DmgSizes == {"3517446"}
\* no fourth argument, or an EdDSA signature
Signatures == {"", "SIG"}

\* the release-notes files the feed script is run with
FeedNotesFiles ==
    { NoNotesFile,
      [exists |-> TRUE, lines |-> << <<"## ", "What's Changed">>, <<"-", " ", "a", " ", "(abc1234)">>,
                                     <<"-", " ", "b">> >>],
      [exists |-> TRUE, lines |-> << <<"## ", "What's New">>, <<"-", " ", "C:\\dir">> >>] }

\* an entry as an earlier run of the script wrote it
OldEntry(version) ==
    NewItemXml(CreateItemElement(version, "100", DefaultNotes, Repo, "earlier"))
        \o <<"wsNL", "wsNL">>

FeedHead == <<"<rss><channel>", "wsNL", "wsIndent8">>
FeedTail == <<"wsIndent8", "</channel></rss>", "wsNL">>
Comment == <<"<!--", "wsNL", "wsIndent8", "-->">>

\* the feeds the script is run on
FeedDocs ==
    { \* the comment block, a blank line, the entries
      FeedHead \o Comment \o <<"wsNL", "wsNL">> \o OldEntry("0.9.0") \o FeedTail,
      FeedHead \o Comment \o <<"wsNL", "wsNL">> \o FeedTail,
      \* a blank line that holds white space, and two blank lines
      FeedHead \o Comment \o <<"wsIndent8", "wsNL", "wsIndent8", "wsNL", "wsIndent8">>
          \o OldEntry("0.9.0") \o FeedTail,
      FeedHead \o Comment \o <<"wsNL", "wsNL", "wsNL">> \o OldEntry("0.9.0")
          \o OldEntry("0.8.0") \o FeedTail,
      \* a second comment further down
      FeedHead \o Comment \o <<"wsNL", "wsNL">> \o OldEntry("0.9.0")
          \o Comment \o <<"wsNL", "wsNL">> \o OldEntry("0.8.0") \o FeedTail,
      \* no blank line after the leading comment block
      FeedHead \o Comment \o <<"wsNL", "wsIndent8">> \o OldEntry("0.9.0") \o FeedTail,
      FeedHead \o Comment \o <<"wsNL", "wsIndent8">> \o OldEntry("0.9.0")
          \o Comment \o <<"wsNL", "wsNL">> \o OldEntry("0.8.0") \o FeedTail,
      \* no comment block
      FeedHead \o OldEntry("0.9.0") \o FeedTail }

\* the bound on the runs of the feed script
MaxRuns == 3

InitFeed ==
    /\ \/ /\ feedExists = TRUE
          /\ feedContent \in FeedDocs
       \/ /\ feedExists = FALSE
          /\ feedContent = <<>>
    /\ feed0 = feedContent
    /\ okCalls = <<>>
    /\ lastFeed = NoCall
    /\ clock = 0
    /\ notesFile \in FeedNotesFiles
    /\ parsed = NoCall
    /\ projExists = FALSE
    /\ projContent = <<>>
    /\ backupContent = <<>>
    /\ plistExists = FALSE
    /\ prev = NoCall
    /\ last = NoCall

\* main() with fewer than three arguments: the usage text and sys.exit(1)
FeedUsage ==
    /\ clock < MaxRuns
    /\ clock' = clock + 1
    /\ lastFeed' = [fn |-> "usage", exit |-> 1]
    /\ UNCHANGED <<feedExists, feedContent, feed0, okCalls>>
    /\ UNCHANGED <<projVars, notesVars>>

\* main() when appcast.xml does not exist: sys.exit(1)
FeedMissing ==
    /\ clock < MaxRuns
    /\ ~feedExists
    /\ clock' = clock + 1
    /\ lastFeed' = [fn |-> "missing", exit |-> 1]
    /\ UNCHANGED <<feedExists, feedContent, feed0, okCalls>>
    /\ UNCHANGED <<projVars, notesVars>>

\* main() with version, dmg_size, release_notes_file and possibly a fourth
\* argument, appcast.xml on disk
FeedUpdate ==
    /\ clock < MaxRuns
    /\ feedExists
    /\ \E version \in Versions, dmgSize \in DmgSizes, signature \in Signatures :
         LET r == UpdateAppcast(feedContent, version, dmgSize, notesFile, Repo,
                                ToString(clock))
         IN /\ feedContent' = r.content
            /\ okCalls' = IF r.ret = "True" THEN Append(okCalls, version) ELSE okCalls
            /\ lastFeed' = [fn |-> "update", version |-> version, signature |-> signature,
                            ret |-> r.ret, item |-> r.item, notes |-> r.notes,
                            before |-> feedContent,
                            exit |-> IF r.ret = "True" THEN 0 ELSE 1]
    /\ clock' = clock + 1
    /\ UNCHANGED <<feedExists, feed0>>
    /\ UNCHANGED <<projVars, notesVars>>

NextFeed == FeedUsage \/ FeedMissing \/ FeedUpdate

SpecFeed == InitFeed /\ [][NextFeed]_vars

(***************************************************************************)
(* The project script as a state machine                                   *)
(***************************************************************************)
InitProject ==
    /\ \/ /\ projExists = TRUE
          /\ projContent \in ProjectDocs
       \/ /\ projExists = FALSE
          /\ projContent = <<>>
    /\ backupContent = <<>>
    /\ plistExists \in BOOLEAN
    /\ prev = NoCall
    /\ last = NoCall
    /\ feedExists = FALSE
    /\ feedContent = <<>>
    /\ feed0 = <<>>
    /\ okCalls = <<>>
    /\ lastFeed = NoCall
    /\ clock = 0
    /\ notesFile = NoNotesFile
    /\ parsed = NoCall

\* a direct call of add_sparkle_to_project(project_file)
CallAddSparkle ==
    /\ projExists
    /\ \E refUuid \in UUIDs : \E productUuid \in UUIDs \ {refUuid} :
         LET r == AddSparkleToProject(projContent, refUuid, productUuid)
         IN /\ projContent' = r.content
            /\ prev' = last
            /\ last' = [fn |-> "add", before |-> projContent, after |-> r.content,
                        add |-> r]
    /\ UNCHANGED <<projExists, backupContent, plistExists>>
    /\ UNCHANGED <<feedVars, notesVars>>

\* a run of the script with the project file on disk
RunMain ==
    /\ projExists
    /\ \E refUuid \in UUIDs : \E productUuid \in UUIDs \ {refUuid} :
         LET r == MainRun(projContent, plistExists, refUuid, productUuid)
         IN /\ projContent' = r.after
            /\ backupContent' = r.backup
            /\ plistExists' = (plistExists \/ r.plistCreated)
            /\ prev' = last
            /\ last' = r
    /\ UNCHANGED projExists
    /\ UNCHANGED <<feedVars, notesVars>>

\* a run of the script without the project file: sys.exit(1) before anything else
RunMainNoProject ==
    /\ ~projExists
    /\ prev' = last
    /\ last' = [fn |-> "main", before |-> <<>>, backup |-> <<>>, add |-> NoCall,
                plistBefore |-> plistExists, plistCreated |-> FALSE, updated |-> FALSE,
                afterAdd |-> <<>>, after |-> <<>>, exit |-> 1]
    /\ UNCHANGED <<projExists, projContent, backupContent, plistExists>>
    /\ UNCHANGED <<feedVars, notesVars>>

NextProject == CallAddSparkle \/ RunMain \/ RunMainNoProject

Init == InitProject

Spec == Init /\ [][NextProject]_vars

(***************************************************************************)
(* parse_release_notes and the entry built from its result                 *)
(***************************************************************************)
\* the lines the release notes are made of
NoteLines ==
    { <<"## ", "What's Changed">>,
      <<"## ", "What's New">>,
      <<"## ", "Installation">>,
      <<"#", "## ", "What's Changed">>,
      <<"-", " ", "a">>,
      <<"-", " ", "b", " ", "(abc1234)">>,
      <<"-", " ", "c", " ", "(ABC1234)">>,
      <<"-", " ", "d", "-">>,
      <<" ", " ", "-", " ", "e">>,
      <<"\t", "-", " ", "f">>,
      <<"-", " ", "(abc1234)">>,
      <<"-", "g">>,
      <<"h">>,
      <<>> }

\* the bound on the lines of a file made of any lines
MaxNoteLines == 3
\* the bound on the bullets of a file with one section
MaxBullets == 7

Bullet(i) == <<"-", " ", "w" \o ToString(i), " ", "(abc1234)">>

NotesFiles ==
    {NoNotesFile}
    \cup {[exists |-> TRUE, lines |-> l] :
            l \in UNION {[1..n -> NoteLines] : n \in 0..MaxNoteLines}}
    \cup {[exists |-> TRUE,
           lines |-> << <<"## ", "What's Changed">> >> \o [i \in 1..n |-> Bullet(i)]
                       \o << <<"## ", "Installation">>, <<"-", " ", "z">> >>] :
            n \in 0..MaxBullets}

InitNotes ==
    /\ notesFile \in NotesFiles
    /\ parsed = NoCall
    /\ projExists = FALSE
    /\ projContent = <<>>
    /\ backupContent = <<>>
    /\ plistExists = FALSE
    /\ prev = NoCall
    /\ last = NoCall
    /\ feedExists = FALSE
    /\ feedContent = <<>>
    /\ feed0 = <<>>
    /\ okCalls = <<>>
    /\ lastFeed = NoCall
    /\ clock = 0

\* parse_release_notes(release_notes_file), then create_item_element and the
\* entry's text as update_appcast builds them
ParseNotes ==
    /\ parsed = NoCall
    /\ \E version \in Versions :
         LET notes == ParseReleaseNotes(notesFile)
         IN parsed' = [fn |-> "parse", notes |-> notes,
                       entry |-> NewItemXml(CreateItemElement(version, "3517446", notes,
                                                              Repo, "now"))]
    /\ UNCHANGED notesFile
    /\ UNCHANGED <<projVars, feedVars>>

NextNotes == ParseNotes

SpecNotes == InitNotes /\ [][NextNotes]_vars

(***************************************************************************)
(* Properties                                                              *)
(***************************************************************************)
Has(content, t) == \E i \in 1..Len(content) : content[i] = t

Reverse(seq) == [i \in 1..Len(seq) |-> seq[Len(seq) + 1 - i]]

\* C1. Idempotency of the object-graph patch: when add_sparkle_to_project is run
\* twice in succession, the second run returns False, writes nothing, and leaves
\* the document as the first run left it, whatever the first run's outcome was;
\* after a first run that wrote, the second reports 'already configured'.
IdempotentPatch ==
    (prev.fn = "add" /\ last.fn = "add") =>
        /\ last.add.ret = FALSE
        /\ ~last.add.wrote
        /\ last.after = prev.after
        /\ projContent = prev.after
        /\ prev.add.wrote =>
               last.add.out[Len(last.add.out)] = "Sparkle already configured in project"

\* C1 witness: a second run after a first run that succeeded with all steps applied
IdempotentPatchWitness ==
    /\ prev.fn = "add" /\ last.fn = "add"
    /\ prev.add.ret /\ prev.add.skipped = {}
    /\ prev.after # prev.before

\* a target record with the literal identifier 8444F69F2DEB50FA002F0BEA
HasLiteralTarget(content) ==
    \E i \in 1..(Len(content) - 1) :
        content[i] = TI("id", TargetId) /\ content[i + 1] = "quillOpen"

\* C2. Missing-target abort: on a document with no target record of the literal
\* identifier, add_sparkle_to_project returns False and leaves the document as it
\* was, also when another record satisfies the target-declaration pattern.
MissingTargetAbort ==
    (last.fn = "add" /\ ~HasLiteralTarget(last.before)) =>
        /\ last.add.ret = FALSE
        /\ last.after = last.before

\* the list of dependencies of the literal target's record holds the entry of p
TargetListHolds(content, p) ==
    \E s \in 1..(Len(content) - 1) :
        /\ content[s] = TI("id", TargetId)
        /\ content[s + 1] = "quillOpen"
        /\ \E o \in (s + 2)..Len(content) :
            /\ content[o] = "ppdOpen"
            /\ \A m \in (s + 2)..(o - 1) : ~HasRBrace(content[m])
            /\ \E d \in (o + 1)..Len(content) :
                /\ content[d] = TI("productDepItem", p)
                /\ \A m \in (o + 1)..(d - 1) : ~HasRParen(content[m])

\* C3. Referential integrity: whenever add_sparkle_to_project returns True, the
\* document holds (a) a product-dependency record whose package attribute is the
\* identifier of the inserted package-reference record and (b) the target's
\* packageProductDependencies list with the product-dependency record's identifier.
ReferentialIntegrity ==
    (last.fn = "add" /\ last.add.ret) =>
        \E r \in UUIDs : \E p \in UUIDs :
            /\ \E i \in 1..(Len(last.after) - 1) :
                   last.after[i] = TI("id", r) /\ last.after[i + 1] = "pkgRefOpen"
            /\ \E i \in 1..(Len(last.after) - 1) :
                   last.after[i] = TI("id", p) /\ last.after[i + 1] = "sparkleOpen"
            /\ Has(last.after, TI("packageAttr", r))
            /\ TargetListHolds(last.after, p)

\* the document with the text the patch inserts taken out again; the entry of the
\* dependency list is taken out with or without the white space written after it
WithoutInserted(content, r, p, withSpace) ==
    LET sections == PackageRefSection(r) \o <<T("wsNL")>>
                        \o ProductDepSection(r, p) \o <<T("wsNL")>>
        entry == IF withSpace THEN ProductDependencyItem(p)
                 ELSE <<TI("productDepItem", p)>>
    IN ReplaceAll(ReplaceAll(ReplaceAll(content, sections, <<>>),
                             PackageReferencesAttr(r), <<>>),
                  entry, <<>>)

\* C4. Non-corruption: the document the patch writes, with the inserted fragments
\* removed, is the original document; nothing that was there is deleted, replaced
\* or moved.
InsertionOnly ==
    (last.fn = "add" /\ last.add.wrote) =>
        \E r \in UUIDs : \E p \in UUIDs : \E withSpace \in BOOLEAN :
            WithoutInserted(last.after, r, p, withSpace) = last.before

\* the versions of the entries of a feed, top to bottom
OldVersions == {"0.9.0", "0.8.0"}
TitleOf(version) == "<title>Version " \o version
IsTitle(t) == \E v \in Versions \cup OldVersions : t = TitleOf(v)
EntryVersions(content) ==
    LET titles == SelectSeq(content, IsTitle)
    IN [i \in 1..Len(titles) |->
           CHOOSE v \in Versions \cup OldVersions : titles[i] = TitleOf(v)]

IsItemOpen(t) == t = "<item>"
EntryCount(content) == Len(SelectSeq(content, IsItemOpen))

\* the first comment block of the feed ends and a blank line follows it
LeadingCommentThenBlank(content) ==
    /\ Has(content, "-->")
    /\ InsertionEnd(content, Min({i \in 1..Len(content) : content[i] = "-->"})) # 0

\* C5. Feed ordering: from a feed whose leading comment block is followed by a
\* blank line, after successful updates for v1, ..., vn the entries read vn, ..., v1
\* and then the entries that were there, whose text is unchanged; each call adds
\* one entry, right after the anchor.
FeedOrdering ==
    LeadingCommentThenBlank(feed0) =>
        LET e == InsertionEnd(feed0, FirstInsertion(feed0))
            rest == Len(feed0) - e
        IN /\ EntryVersions(feedContent) = Reverse(okCalls) \o EntryVersions(feed0)
           /\ EntryCount(feedContent) = Len(okCalls) + EntryCount(feed0)
           /\ SubSeq(feedContent, 1, e) = SubSeq(feed0, 1, e)
           /\ SubSeq(feedContent, Len(feedContent) - rest + 1, Len(feedContent))
                  = SubSeq(feed0, e + 1, Len(feed0))

\* C5 witness: three successful updates of a feed that held entries
FeedOrderingWitness ==
    /\ LeadingCommentThenBlank(feed0)
    /\ EntryVersions(feed0) # <<>>
    /\ okCalls = <<"1.0.0", "1.0.1", "1.0.2">>
    /\ EntryVersions(feedContent) = <<"1.0.2", "1.0.1", "1.0.0">> \o EntryVersions(feed0)

\* C6. Signature optionality: an update without a signature argument writes an
\* enclosure with no sparkle:edSignature attribute, an update with one writes an
\* enclosure whose sparkle:edSignature is that signature.
SignatureOptionality ==
    (lastFeed.fn = "update" /\ lastFeed.ret = "True") =>
        LET attrs == lastFeed.item.enclosure
            signed == {k \in 1..Len(attrs) : attrs[k][1] = "sparkle:edSignature"}
        IN /\ Has(feedContent, EnclosureXml(attrs))
           /\ lastFeed.signature = "" => signed = {}
           /\ lastFeed.signature # "" =>
                  \E k \in signed : attrs[k][2] = lastFeed.signature

\* the first line that is one of the two headings, 0 when there is none
FirstHeading(lines) ==
    LET hs == {i \in 1..Len(lines) :
                  /\ Len(lines[i]) = 2
                  /\ lines[i][1] = "## "
                  /\ lines[i][2] \in {"What's Changed", "What's New"}}
    IN IF hs = {} THEN 0 ELSE Min(hs)

\* the lines of the first section: up to the next line that starts with '## '
FirstSection(lines) ==
    LET h == FirstHeading(lines)
        ends == {i \in (h + 1)..Len(lines) : StartsWithH2(lines[i])}
    IN IF h = 0 THEN <<>>
       ELSE SubSeq(lines, h + 1, IF ends = {} THEN Len(lines) ELSE Min(ends) - 1)

\* a bullet's text with the leading '- ' and a trailing hash in parentheses removed
BulletText(line) ==
    LET l == Strip(line, WhiteSpace)
    IN RemoveCommitHash(SubSeq(l, 3, Len(l)))

SectionBullets(lines) ==
    LET bullets == SelectSeq(FirstSection(lines), IsBulletLine)
    IN [i \in 1..Len(bullets) |-> BulletText(bullets[i])]

IsListItem(t) == t = "&lt;li&gt;"

\* C7. Notes truncation: with n bullets in the first section headed by one of the
\* two headings, parse_release_notes returns the first min(n, 5) of them in order,
\* each without its '- ' and without a trailing hash in parentheses, nothing from
\* outside the section, and the entry holds one list item per note.
NotesTruncation ==
    (parsed.fn = "parse" /\ notesFile.exists /\ SectionBullets(notesFile.lines) # <<>>) =>
        LET bullets == SectionBullets(notesFile.lines)
            n == Len(bullets)
        IN /\ parsed.notes = SubSeq(bullets, 1, IF n < 5 THEN n ELSE 5)
           /\ Len(SelectSeq(parsed.entry, IsListItem)) = Len(parsed.notes)

\* add_sparkle_to_project gave up on a missing target, project object or section
AnchorFailure(add) ==
    /\ ~add.ret
    /\ add.out[Len(add.out)] \in {"ERROR: Could not find Quill target",
                                  "ERROR: Could not find project object",
                                  "ERROR: Could not find PBXProject section"}

\* C8. Exit status of the project-configuration command: 1 when project.pbxproj is
\* absent or add_sparkle_to_project fails on a missing anchor, 0 only when the
\* patch succeeded (or had been applied before).
ExitStatus ==
    last.fn = "main" =>
        /\ ~projExists => last.exit = 1
        /\ (projExists /\ AnchorFailure(last.add)) => last.exit = 1
        /\ last.exit = 0 => (projExists /\ ~AnchorFailure(last.add))

\* C9. Anchor failures are never silent: when add_sparkle_to_project does not find
\* an anchor it looks for (the optional attribute run of the root record and the
\* empty dependency list included), it does not return True.
AnchorFailuresReported ==
    last.fn = "add" =>
        /\ last.add.skipped # {} => ~last.add.ret
        /\ last.add.ret => last.add.out[Len(last.add.out)] = "Added Sparkle package to project"
        /\ (~last.add.ret /\ ~AlreadyConfigured(last.before)) => AnchorFailure(last.add)

\* the build-configuration record of the Quill target that starts with `open`,
\* <<>> when the document holds none
QuillConfigRecord(content, open) ==
    LET ss == {i \in 1..Len(content) : OccursAt(content, open, i)}
    IN IF ss = {} THEN <<>>
       ELSE LET s == Min(ss)
                e == Min({j \in s..Len(content) : content[j] = "closeBrace"})
            IN SubSeq(content, s, e)

\* the record as the update is meant to leave it
ConfigRecordUpdated(record) ==
    ReplaceAll(ReplaceAll(record, <<"genInfoplist", "yes">>, <<"genInfoplist", "no">>),
               <<"genInfoplist", "no">>, <<"genInfoplist", "no", "infoplistFile">>)

\* the document with the two records of the Quill target updated and nothing else
OnlyQuillConfigsUpdated(content) ==
    LET debug == QuillConfigRecord(content, <<TI("id", QuillDebugId), "cDebug", "recOpen">>)
        release == QuillConfigRecord(content, <<TI("id", QuillReleaseId), "cRelease", "recOpen">>)
    IN ReplaceAll(ReplaceAll(content, debug, ConfigRecordUpdated(debug)),
                  release, ConfigRecordUpdated(release))

\* C10. Scope of the Info.plist update: it runs only when Info.plist was absent and
\* has been created; it sets GENERATE_INFOPLIST_FILE to NO and adds the
\* INFOPLIST_FILE line after it in the Debug and Release records of the Quill
\* target, and leaves everything else unchanged.
InfoPlistScope ==
    last.fn = "main" /\ last.exit = 0 =>
        /\ last.updated => last.after = OnlyQuillConfigsUpdated(last.afterAdd)
        /\ ~last.updated => last.after = last.afterAdd
        /\ last.updated => (last.plistCreated /\ ~last.plistBefore)

====
